---- MODULE Spec2Model ----
(***************************************************************************)
(* Model of src/app.py: the Flask handler of POST /api/transcription       *)
(* (transcribe) and its helpers validate_transcription_input,              *)
(* transcribe_audio, format_transcription_response and                     *)
(* format_error_response.                                                  *)
(*                                                                         *)
(* Python values are modelled as follows.                                  *)
(*   - A value that may be None is None == <<>> or Some(v) == <<v>>.       *)
(*   - An object is a function from attribute names to values, so that     *)
(*     hasattr(obj, "a") is "a" \in DOMAIN obj.                            *)
(*   - A dict that is turned into JSON is a function from keys to values:  *)
(*     a key that is absent is not in the DOMAIN, a key whose value is     *)
(*     null maps to None.                                                  *)
(*   - An exception is a record [type, text]; a float is an integer.       *)
(***************************************************************************)
EXTENDS Integers, Sequences, FiniteSets, TLC

\* ------------------------------------------------------------------ bounds

\* Handler invocations that may be in progress at the same time (Flask runs
\* one per thread); each slot is reused by later requests.
NumRequests == 2

\* Longest words list in a provider reply.
MaxWords == 2

Requests == 1..NumRequests

\* ----------------------------------------------------------- Python values

None == <<>>

Some(v) == <<v>>

\* bool(s) of an optional str: None and "" are falsy.
TruthyStr(s) == s # None /\ s[1] # ""

\* bool(l) of an optional list: None and [] are falsy.
TruthyList(l) == l # None /\ l[1] # <<>>

\* bool(file) of an optional werkzeug FileStorage, as tested by `if file:`.
\* FileStorage.__bool__ is bool(self.filename).
TruthyFile(f) == f # None /\ f[1].filename # ""

\* hasattr(obj, attr) of an optional object; hasattr(None, attr) is False for
\* the attributes the code asks for.
HasAttr(obj, attr) == obj # None /\ attr \in DOMAIN obj[1]

DEFAULT_MODEL == "nova-3"

\* ------------------------------------------------------------ the requests

\* request.files.get("file"): no such part, a part with no file selected
\* (empty filename), an uploaded file.
Files ==
    { None,
      Some([filename |-> "", content |-> ""]),
      Some([filename |-> "a.wav", content |-> "RIFF"]) }

\* request.form.get("url"): no such field, an empty field, a URL.
Urls == { None, Some(""), Some("https://example.com/a.wav") }

\* The `model` form field: not sent, or sent.
FormModels == { None, Some("nova-2") }

\* request.form.get("model", DEFAULT_MODEL): the default only replaces a
\* field that is not sent.
form_get_model(field) == IF field = None THEN DEFAULT_MODEL ELSE field[1]

\* ------------------------------------------------------ the provider side

\* Words of a provider alternative: `speaker` is an attribute only of some.
ProviderWords ==
    { [word |-> "hello", start |-> 0, end |-> 4, speaker |-> Some(0)],
      [word |-> "world", start |-> 5, end |-> 9] }

RECURSIVE SeqsUpTo(_, _)
SeqsUpTo(S, n) ==
    IF n = 0 THEN { <<>> }
    ELSE LET shorter == SeqsUpTo(S, n - 1)
         IN  shorter \cup { Append(s, x) : s \in { t \in shorter : Len(t) = n - 1 }, x \in S }

Transcripts == { None, Some(""), Some("hello world") }

\* The `words` attribute of an alternative: no such attribute, None, a list.
WordsAttrs ==
    { <<>> } \cup { "words" :> None }
             \cup { "words" :> Some(ws) : ws \in SeqsUpTo(ProviderWords, MaxWords) }

Alternatives == { ("transcript" :> t) @@ w : t \in Transcripts, w \in WordsAttrs }

\* response.metadata: None, or an object with any of the attributes the code
\* asks for; duration may be an attribute whose value is None.
MetaObjects ==
    { d @@ u @@ r :
        d \in { <<>>, "duration" :> None, "duration" :> Some(12) },
        u \in { <<>>, "model_uuid" :> Some("uuid-1") },
        r \in { <<>>, "request_id" :> Some("req-1") } }

Metadatas == { None } \cup { Some(m) : m \in MetaObjects }

FullMetadata ==
    Some([duration |-> Some(12), model_uuid |-> Some("uuid-1"), request_id |-> Some("req-1")])

Reply(channels, metadata) == [results |-> [channels |-> channels], metadata |-> metadata]

\* Replies without a result: no channel, a channel without alternatives, a
\* channel whose first alternative is None.
NoResultChannels ==
    { <<>>, << [alternatives |-> <<>>] >>, << [alternatives |-> << None >>] >> }

ResultChannels == { << [alternatives |-> << Some(a) >>] >> : a \in Alternatives }

\* Every reply format_transcription_response is applied to.
Replies ==
    { Reply(c, m) : c \in NoResultChannels \cup ResultChannels, m \in Metadatas }

\* The replies the provider gives in the handler's specification: every
\* shape without a result, and every transcript.
ProviderReplies ==
    { Reply(c, FullMetadata) : c \in NoResultChannels }
    \cup { Reply(<< [alternatives |-> << Some("transcript" :> t) >>] >>, FullMetadata) :
             t \in Transcripts \ { Some("") } }

\* Exceptions of the provider call. JSONDecodeError is a subclass of
\* ValueError.
ProviderExceptions ==
    { [type |-> "ApiError", text |-> "connection reset"],
      [type |-> "ApiError", text |-> "401 unauthorized"],
      [type |-> "JSONDecodeError", text |-> "Expecting value"] }

\* isinstance(e, ValueError), the test of `except ValueError`.
IsValueError(e) == e.type \in { "ValueError", "JSONDecodeError", "UnicodeDecodeError" }

\* ------------------------------------------------------------- the helpers

\* Mutant of validate_transcription_input: `is not None` in place of the
\* truth tests.
validate_transcription_input_present(file, url) ==
    IF url # None THEN Some([type |-> "url", url |-> url[1]])
    ELSE IF file # None THEN Some([type |-> "file", file |-> file[1]])
    ELSE None

\* Mutant of validate_transcription_input: the file is tested first.
validate_transcription_input_file_first(file, url) ==
    IF TruthyFile(file) THEN Some([type |-> "file", file |-> file[1]])
    ELSE IF TruthyStr(url) THEN Some([type |-> "url", url |-> url[1]])
    ELSE None

validate_transcription_input(file, url) ==
    IF TruthyStr(url) THEN Some([type |-> "url", url |-> url[1]])
    ELSE IF TruthyFile(file) THEN Some([type |-> "file", file |-> file[1]])
    ELSE None

\* Mutant of transcribe_audio: the model argument is not passed on, so the
\* provider is called with the default model.
transcribe_audio_default_model(input_data, model) ==
    IF input_data.type = "url"
    THEN [read  |-> FALSE,
          calls |-> << [method |-> "transcribe_url", payload |-> input_data.url,
                        model |-> DEFAULT_MODEL, smart_format |-> TRUE] >>]
    ELSE [read  |-> TRUE,
          calls |-> << [method |-> "transcribe_file", payload |-> input_data.file.content,
                        model |-> DEFAULT_MODEL, smart_format |-> TRUE] >>]

\* Mutant of transcribe_audio: the provider call is made a second time.
transcribe_audio_twice(input_data, model) ==
    IF input_data.type = "url"
    THEN [read  |-> FALSE,
          calls |-> << [method |-> "transcribe_url", payload |-> input_data.url,
                        model |-> model, smart_format |-> TRUE],
                       [method |-> "transcribe_url", payload |-> input_data.url,
                        model |-> model, smart_format |-> TRUE] >>]
    ELSE [read  |-> TRUE,
          calls |-> << [method |-> "transcribe_file", payload |-> input_data.file.content,
                        model |-> model, smart_format |-> TRUE],
                       [method |-> "transcribe_file", payload |-> input_data.file.content,
                        model |-> model, smart_format |-> TRUE] >>]

\* What transcribe_audio does before it waits for the provider: whether it
\* reads the file, and the outbound calls it makes.
transcribe_audio(input_data, model) ==
    IF input_data.type = "url"
    THEN [read  |-> FALSE,
          calls |-> << [method |-> "transcribe_url", payload |-> input_data.url,
                        model |-> model, smart_format |-> TRUE] >>]
    ELSE [read  |-> TRUE,
          calls |-> << [method |-> "transcribe_file", payload |-> input_data.file.content,
                        model |-> model, smart_format |-> TRUE] >>]

\* Mutant of format_word: no speaker key for a word without speaker.
format_word_no_null(word) ==
    [text |-> word.word, start |-> word.start, end |-> word.end]
    @@ (IF "speaker" \in DOMAIN word THEN "speaker" :> word.speaker ELSE <<>>)

format_word(word) ==
    [text    |-> word.word,
     start   |-> word.start,
     end     |-> word.end,
     speaker |-> IF "speaker" \in DOMAIN word THEN word.speaker ELSE None]

Raised(type, text) == [ok |-> FALSE, exc |-> [type |-> type, text |-> text]]

Returned(value) == [ok |-> TRUE, value |-> value]

\* transcription_response.results.channels[0].alternatives[0] and the test
\* `if not result`: the first alternative, or the exception raised for it.
first_alternative(transcription_response) ==
    LET channels == transcription_response.results.channels IN
    IF Len(channels) = 0 THEN Raised("IndexError", "list index out of range")
    ELSE IF Len(channels[1].alternatives) = 0
    THEN Raised("IndexError", "list index out of range")
    ELSE IF channels[1].alternatives[1] = None
    THEN Raised("ValueError", "No transcription results returned from Deepgram")
    ELSE Returned(channels[1].alternatives[1][1])

\* result.transcript or ""
format_transcript(result) ==
    IF TruthyStr(result.transcript) THEN result.transcript[1] ELSE ""

\* The `words` key of the response, if any.
format_words(result) ==
    IF "words" \in DOMAIN result /\ TruthyList(result.words)
    THEN "words" :> [k \in DOMAIN result.words[1] |-> format_word(result.words[1][k])]
    ELSE <<>>

\* Mutant of format_duration: a null placeholder when there is no duration.
format_duration_placeholder(metadata) ==
    "duration" :> (IF HasAttr(metadata, "duration") THEN metadata[1].duration ELSE None)

\* The `duration` key of the response, if any.
format_duration(metadata) ==
    IF metadata # None /\ HasAttr(metadata, "duration")
    THEN "duration" :> metadata[1].duration
    ELSE <<>>

\* The `metadata` key of the response.
format_metadata(metadata, model_name) ==
    "metadata" :>
        [model_uuid |-> IF HasAttr(metadata, "model_uuid")
                        THEN metadata[1].model_uuid ELSE None,
         request_id |-> IF HasAttr(metadata, "request_id")
                        THEN metadata[1].request_id ELSE None,
         model_name |-> model_name]

\* The value format_transcription_response returns, [ok |-> TRUE, value], or
\* the exception it raises, [ok |-> FALSE, exc].
format_transcription_response(transcription_response, model_name) ==
    LET first == first_alternative(transcription_response)
        metadata == transcription_response.metadata
    IN
    IF ~first.ok THEN first
    ELSE Returned(("transcript" :> format_transcript(first.value))
                  @@ format_words(first.value)
                  @@ format_duration(metadata)
                  @@ format_metadata(metadata, model_name))

\* Mutant of format_error_response: the message is the exception's text.
format_error_response_raw(error, status_code) ==
    IF status_code = 400
    THEN [status |-> status_code,
          body   |-> [error |->
                        [type    |-> "ValidationError",
                         code    |-> "INVALID_INPUT",
                         message |-> error.text]]]
    ELSE [status |-> status_code,
          body   |-> [error |->
                        [type    |-> "TranscriptionError",
                         code    |-> "TRANSCRIPTION_FAILED",
                         message |-> error.text]]]

format_error_response(error, status_code) ==
    IF status_code = 400
    THEN [status |-> status_code,
          body   |-> [error |->
                        [type    |-> "ValidationError",
                         code    |-> "INVALID_INPUT",
                         message |-> "The request is invalid. Please check your input and try again."]]]
    ELSE [status |-> status_code,
          body   |-> [error |->
                        [type    |-> "TranscriptionError",
                         code    |-> "TRANSCRIPTION_FAILED",
                         message |-> "Transcription failed. Please try again."]]]

\* The except clauses of transcribe: ValueError first, then Exception.
handle_exception(e) ==
    IF IsValueError(e) THEN format_error_response(e, 400)
    ELSE format_error_response(e, 500)

\* ------------------------------------------------------------------- state

VARIABLES
    pc,         \* per handler invocation: "idle", "calling" (blocked in the provider call), "done"
    form,       \* per invocation: the request's file, url and model fields
    reads,      \* per invocation: how many times the uploaded file was read
    calls,      \* per invocation: the outbound provider calls made, in order
    outcome,    \* per invocation: what the provider call raised or returned
    response,   \* per invocation: the (status, JSON body) returned
    fmt_in,     \* the arguments of a direct call of format_transcription_response
    fmt_out     \* and its result

vars == << pc, form, reads, calls, outcome, response, fmt_in, fmt_out >>

NoRequest == [file |-> None, url |-> None, model |-> None]

Idle ==
    /\ pc = [i \in Requests |-> "idle"]
    /\ form = [i \in Requests |-> NoRequest]
    /\ reads = [i \in Requests |-> 0]
    /\ calls = [i \in Requests |-> <<>>]
    /\ outcome = [i \in Requests |-> None]
    /\ response = [i \in Requests |-> None]

Init ==
    /\ Idle
    /\ fmt_in = None
    /\ fmt_out = None

\* ----------------------------------------------------------------- actions

\* A request arrives and transcribe runs up to the provider call: the
\* fields are extracted and validated; an invalid request is answered with
\* 400, a valid one makes transcribe_audio's call and waits for the provider.
transcribe_request(i) ==
    /\ pc[i] = "idle"
    /\ \E file \in Files, url \in Urls, field \in FormModels :
        LET model == form_get_model(field)
            input_data == validate_transcription_input(file, url)
        IN
        /\ form' = [form EXCEPT ![i] = [file |-> file, url |-> url, model |-> field]]
        /\ IF input_data = None
           THEN /\ response' = [response EXCEPT ![i] =
                     Some(format_error_response(
                         [type |-> "ValueError",
                          text |-> "Either 'file' or 'url' must be provided"], 400))]
                /\ pc' = [pc EXCEPT ![i] = "done"]
                /\ UNCHANGED << reads, calls >>
           ELSE LET sent == transcribe_audio(input_data[1], model) IN
                /\ reads' = [reads EXCEPT ![i] = @ + (IF sent.read THEN 1 ELSE 0)]
                /\ calls' = [calls EXCEPT ![i] = @ \o sent.calls]
                /\ pc' = [pc EXCEPT ![i] = "calling"]
                /\ UNCHANGED response
    /\ UNCHANGED << outcome, fmt_in, fmt_out >>

\* Mutant of provider_returns: the model name is kept in a variable shared
\* by the invocations (here the first invocation's) instead of a local one.
provider_returns_shared(i) ==
    /\ pc[i] = "calling"
    /\ \E reply \in ProviderReplies :
        LET formatted == format_transcription_response(reply, form_get_model(form[1].model))
        IN
        /\ outcome' = [outcome EXCEPT ![i] = Some([returned |-> reply])]
        /\ response' = [response EXCEPT ![i] =
               IF formatted.ok
               THEN Some([status |-> 200, body |-> formatted.value])
               ELSE Some(handle_exception(formatted.exc))]
    /\ pc' = [pc EXCEPT ![i] = "done"]
    /\ UNCHANGED << form, reads, calls, fmt_in, fmt_out >>

\* The provider call returns a reply: it is formatted and answered with 200,
\* or the exception of the formatting is handled.
provider_returns(i) ==
    /\ pc[i] = "calling"
    /\ \E reply \in ProviderReplies :
        LET formatted == format_transcription_response(reply, form_get_model(form[i].model))
        IN
        /\ outcome' = [outcome EXCEPT ![i] = Some([returned |-> reply])]
        /\ response' = [response EXCEPT ![i] =
               IF formatted.ok
               THEN Some([status |-> 200, body |-> formatted.value])
               ELSE Some(handle_exception(formatted.exc))]
    /\ pc' = [pc EXCEPT ![i] = "done"]
    /\ UNCHANGED << form, reads, calls, fmt_in, fmt_out >>

\* The provider call raises: the exception is handled.
provider_raises(i) ==
    /\ pc[i] = "calling"
    /\ \E e \in ProviderExceptions :
        /\ outcome' = [outcome EXCEPT ![i] = Some([raised |-> e])]
        /\ response' = [response EXCEPT ![i] = Some(handle_exception(e))]
    /\ pc' = [pc EXCEPT ![i] = "done"]
    /\ UNCHANGED << form, reads, calls, fmt_in, fmt_out >>

\* The response is sent and the invocation ends; nothing of it is kept.
request_ends(i) ==
    /\ pc[i] = "done"
    /\ pc' = [pc EXCEPT ![i] = "idle"]
    /\ form' = [form EXCEPT ![i] = NoRequest]
    /\ reads' = [reads EXCEPT ![i] = 0]
    /\ calls' = [calls EXCEPT ![i] = <<>>]
    /\ outcome' = [outcome EXCEPT ![i] = None]
    /\ response' = [response EXCEPT ![i] = None]
    /\ UNCHANGED << fmt_in, fmt_out >>

Next ==
    \E i \in Requests :
        \/ transcribe_request(i)
        \/ provider_returns(i)
        \/ provider_raises(i)
        \/ request_ends(i)

Spec == Init /\ [][Next]_vars

\* format_transcription_response on its own, applied to every reply.
FormatInit ==
    /\ Idle
    /\ fmt_in \in { Some([response |-> r, model_name |-> m]) :
                      r \in Replies, m \in { DEFAULT_MODEL, "nova-2" } }
    /\ fmt_out = None

format_call ==
    /\ fmt_in # None
    /\ fmt_out = None
    /\ fmt_out' = Some(format_transcription_response(fmt_in[1].response, fmt_in[1].model_name))
    /\ UNCHANGED << pc, form, reads, calls, outcome, response, fmt_in >>

FormatNext == format_call

FormatSpec == FormatInit /\ [][FormatNext]_vars

\* ------------------------------------------------------------ the claims

Status(i) == response[i][1].status

Body(i) == response[i][1].body

Answered(i) == pc[i] = "done"

\* The request of invocation i passed validation.
Valid(i) == TruthyStr(form[i].url) \/ TruthyFile(form[i].file)

ProviderRaised(i) == outcome[i] # None /\ "raised" \in DOMAIN outcome[i][1]

ProviderReturned(i) == outcome[i] # None /\ "returned" \in DOMAIN outcome[i][1]

IsError(i, status, type) ==
    /\ Status(i) = status
    /\ DOMAIN Body(i) = { "error" }
    /\ Body(i).error.type = type

\* C1: a request that carries neither a file nor a url (no such field, or an
\* empty one), whatever its model field, is answered with HTTP 400 and
\* error.type "ValidationError".
C1_MissingInputIs400 ==
    \A i \in Requests :
        (Answered(i) /\ ~TruthyFile(form[i].file) /\ ~TruthyStr(form[i].url))
            => IsError(i, 400, "ValidationError")

\* A request without `file` and `url` fields and with a model field has been
\* answered with 400.
C1_Witness ==
    \E i \in Requests :
        /\ Answered(i)
        /\ form[i].file = None /\ form[i].url = None /\ form[i].model = Some("nova-2")
        /\ IsError(i, 400, "ValidationError")
        /\ calls[i] = <<>>

UrlCall(i) ==
    [method |-> "transcribe_url", payload |-> form[i].url[1],
     model |-> form_get_model(form[i].model), smart_format |-> TRUE]

\* C2 as stated: every request that uploads a file and has a `url` field takes
\* the URL path: transcribe_url is called with that url, transcribe_file is
\* not called and the file is not read.
C2_Original ==
    \A i \in Requests :
        (pc[i] # "idle" /\ TruthyFile(form[i].file) /\ form[i].url # None)
            => /\ Len(calls[i]) = 1
               /\ calls[i][1].method = "transcribe_url"
               /\ calls[i][1].payload = form[i].url[1]
               /\ reads[i] = 0

\* C2, amended: every request that has a `file` part and a non-empty `url`
\* field takes the URL path: the only provider call is transcribe_url with
\* that url, and the file is never read.
C2_UrlPrecedence ==
    \A i \in Requests :
        (pc[i] # "idle" /\ form[i].file # None /\ TruthyStr(form[i].url))
            => /\ calls[i] = << UrlCall(i) >>
               /\ reads[i] = 0

\* A request with an uploaded file and a URL has been answered through the
\* URL path.
C2_Witness ==
    \E i \in Requests :
        /\ Answered(i)
        /\ TruthyFile(form[i].file) /\ TruthyStr(form[i].url)
        /\ calls[i] = << UrlCall(i) >>
        /\ Status(i) = 200

\* C3: whatever exception the provider call raises, the request is answered
\* with HTTP 500 and error.type "TranscriptionError".
C3_ProviderExceptionIs500 ==
    \A i \in Requests :
        (Answered(i) /\ ProviderRaised(i)) => IsError(i, 500, "TranscriptionError")

\* C4: a reply of the provider without a usable result (no first channel, or
\* no first alternative in it) is answered with HTTP 500 and error.type
\* "TranscriptionError".
C4_NoResultIs500 ==
    \A i \in Requests :
        (/\ Answered(i)
         /\ ProviderReturned(i)
         /\ outcome[i][1].returned.results.channels \in NoResultChannels)
            => IsError(i, 500, "TranscriptionError")

\* The model string the request asks for.
RequestedModel(i) == IF form[i].model = None THEN "nova-3" ELSE form[i].model[1]

\* The provider returned a reply that has a first alternative.
ProviderResult(i) ==
    /\ ProviderReturned(i)
    /\ outcome[i][1].returned.results.channels \notin NoResultChannels

ProviderTranscript(i) ==
    outcome[i][1].returned.results.channels[1].alternatives[1][1].transcript

CallUsesRequestedModel(i) ==
    /\ Len(calls[i]) = 1
    /\ calls[i][1].model = RequestedModel(i)
    /\ calls[i][1].smart_format = TRUE
    /\ calls[i][1].method = (IF TruthyStr(form[i].url) THEN "transcribe_url" ELSE "transcribe_file")

\* C7 as stated: a valid request's provider call uses the requested model
\* ("nova-3" when none is sent) and smart_format = true, in URL and in file
\* mode; when the provider returns a result, the answer is 200, its
\* metadata.model_name is the requested model and its transcript equals the
\* provider's transcript.
C7_Original ==
    \A i \in Requests :
        (pc[i] # "idle" /\ Valid(i))
            => /\ CallUsesRequestedModel(i)
               /\ (Answered(i) /\ ProviderResult(i))
                    => /\ Status(i) = 200
                       /\ Body(i).metadata.model_name = RequestedModel(i)
                       /\ Some(Body(i).transcript) = ProviderTranscript(i)

\* C7, amended: as stated, except that the transcript of the answer is the
\* provider's transcript when that is a string, and "" when the provider's
\* transcript is null.
C7_ModelEchoed ==
    \A i \in Requests :
        (pc[i] # "idle" /\ Valid(i))
            => /\ CallUsesRequestedModel(i)
               /\ (Answered(i) /\ ProviderResult(i))
                    => /\ Status(i) = 200
                       /\ Body(i).metadata.model_name = RequestedModel(i)
                       /\ Body(i).transcript =
                              (IF ProviderTranscript(i) = None THEN ""
                               ELSE ProviderTranscript(i)[1])

\* An uploaded file sent with model "nova-2" has been transcribed and
\* answered with 200.
C7_Witness ==
    \E i \in Requests :
        /\ Answered(i)
        /\ form[i].model = Some("nova-2")
        /\ ~TruthyStr(form[i].url)
        /\ Valid(i)
        /\ calls[i][1].method = "transcribe_file"
        /\ calls[i][1].model = "nova-2"
        /\ ProviderResult(i)
        /\ Status(i) = 200
        /\ Body(i).transcript = "hello world"
        /\ Body(i).metadata.model_name = "nova-2"

Failed(i) == Answered(i) /\ Status(i) >= 400

\* C8: two failed requests with the same HTTP status have the same body, and
\* the message of a failed request is never the text of the exception the
\* provider raised.
C8_ErrorBodyByStatusOnly ==
    /\ \A i, j \in Requests :
          (Failed(i) /\ Failed(j) /\ Status(i) = Status(j)) => Body(i) = Body(j)
    /\ \A i \in Requests :
          (Failed(i) /\ ProviderRaised(i))
              => Body(i).error.message # outcome[i][1].raised.text

\* Two requests have failed with 500 on provider exceptions of different
\* text.
C8_Witness ==
    \E i, j \in Requests :
        /\ Failed(i) /\ Failed(j)
        /\ Status(i) = 500 /\ Status(j) = 500
        /\ ProviderRaised(i) /\ ProviderRaised(j)
        /\ outcome[i][1].raised.text # outcome[j][1].raised.text

\* C9: a request never makes more than one provider call; while it waits
\* for the provider and once it is answered it has made exactly one call if
\* it passed validation, whether the call returned or raised, and none if it
\* did not.
C9_OneProviderCall ==
    \A i \in Requests :
        /\ Len(calls[i]) <= 1
        /\ reads[i] <= 1
        /\ pc[i] = "calling" => (Valid(i) /\ Len(calls[i]) = 1)
        /\ Answered(i) => Len(calls[i]) = (IF Valid(i) THEN 1 ELSE 0)
        /\ \A k \in 1..Len(calls[i]) :
              calls[i][k].method \in { "transcribe_url", "transcribe_file" }

\* A request whose provider call raised has been answered after one call,
\* and another that failed validation after none.
C9_Witness ==
    \E i, j \in Requests :
        /\ Answered(i) /\ ProviderRaised(i) /\ Len(calls[i]) = 1
        /\ Answered(j) /\ ~Valid(j) /\ Len(calls[j]) = 0

FmtReply == fmt_in[1].response

FmtFormatted == fmt_in # None /\ fmt_out # None

\* The reply has a first alternative.
FmtHasResult == first_alternative(FmtReply).ok

FmtResult == first_alternative(FmtReply).value

FmtNoWords == ~("words" \in DOMAIN FmtResult /\ TruthyList(FmtResult.words))

C6_WordsMapped ==
    (/\ FmtFormatted
     /\ FmtHasResult
     /\ ~FmtNoWords)
        => /\ fmt_out[1].ok
           /\ "words" \in DOMAIN fmt_out[1].value
           /\ LET given == FmtResult.words[1]
                  out == fmt_out[1].value.words
              IN /\ DOMAIN out = 1..Len(given)
                 /\ \A k \in 1..Len(given) :
                      /\ DOMAIN out[k] = { "text", "start", "end", "speaker" }
                      /\ out[k].text = given[k].word
                      /\ out[k].start = given[k].start
                      /\ out[k].end = given[k].end
                      /\ out[k].speaker =
                             (IF "speaker" \in DOMAIN given[k]
                              THEN given[k].speaker ELSE None)

\* A words list of two different words, the first with a speaker and the
\* second without, has been formatted.
C6_Witness ==
    /\ FmtFormatted
    /\ FmtHasResult
    /\ ~FmtNoWords
    /\ Len(FmtResult.words[1]) = 2
    /\ "speaker" \in DOMAIN FmtResult.words[1][1]
    /\ "speaker" \notin DOMAIN FmtResult.words[1][2]
    /\ fmt_out[1].ok
    /\ fmt_out[1].value.words[1].speaker = Some(0)
    /\ fmt_out[1].value.words[2].speaker = None

====
